---- MODULE Spec2Model ----
(***************************************************************************)
(* A model of the SCRU128 generator of src/scru128/__init__.py: the        *)
(* packed identifier (Scru128Id), the counter/timestamp state machine      *)
(* (Scru128Generator.generate_or_abort_core / generate_or_reset_core) and  *)
(* the locked entry point (Scru128Generator.generate).                     *)
(*                                                                         *)
(* The field maxima, the counter_hi reseed interval and the default        *)
(* rollback allowance are scaled down so that every branch of the          *)
(* algorithm, the counter overflows included, is reached by exhaustive     *)
(* search.  The source packs the fields with shifts by the field widths;   *)
(* the model packs them positionally with the radices MAX_x + 1, which is  *)
(* the same function when MAX_x + 1 is a power of two.                     *)
(***************************************************************************)
EXTENDS Integers, Sequences, FiniteSets, TLC

(***************************************************************************)
(* Scaled stand-ins of the program's constants.                            *)
(***************************************************************************)
\* src line 24: MAX_TIMESTAMP = 0xFFFF_FFFF_FFFF
MAX_TIMESTAMP == 3

\* src line 27: MAX_COUNTER_HI = 0xFF_FFFF
MAX_COUNTER_HI == 1

\* src line 30: MAX_COUNTER_LO = 0xFF_FFFF
MAX_COUNTER_LO == 1

\* src line 61: the entropy field's maximum, 0xFFFF_FFFF
MAX_ENTROPY == 1

\* src line 298: counter_hi is reseeded when 1_000 ms have passed
RESEED_INTERVAL == 2

\* src line 36: DEFAULT_ROLLBACK_ALLOWANCE = 10_000
DEFAULT_ROLLBACK_ALLOWANCE == 1

\* the number of threads that call generate() on the one generator
THREADS == 2

(***************************************************************************)
(* Scru128Id: a packed unsigned integer and its field accessors.           *)
(***************************************************************************)
\* the weight of counter_lo in the packed value (the source's << 32)
SHIFT_COUNTER_LO == MAX_ENTROPY + 1

\* the weight of counter_hi in the packed value (the source's << 56)
SHIFT_COUNTER_HI == SHIFT_COUNTER_LO * (MAX_COUNTER_LO + 1)

\* the weight of timestamp in the packed value (the source's << 80)
SHIFT_TIMESTAMP == SHIFT_COUNTER_HI * (MAX_COUNTER_HI + 1)

\* the greatest packed value (the source's 128-bit ceiling)
MAX_INT_VALUE == SHIFT_TIMESTAMP * (MAX_TIMESTAMP + 1) - 1

\* "no identifier": the None of the source, and the value of a raised call
NoId == -1

\* Scru128Id.__init__: the range check of the packed value
Scru128Id(int_value) ==
    IF 0 <= int_value /\ int_value <= MAX_INT_VALUE
    THEN [raised |-> "", value |-> int_value]
    ELSE [raised |-> "not a 128-bit unsigned integer", value |-> NoId]

from_fields_unchecked(timestamp, counter_hi, counter_lo, entropy) ==
    Scru128Id(  timestamp * SHIFT_TIMESTAMP + counter_hi * SHIFT_COUNTER_HI
              + counter_lo * SHIFT_COUNTER_LO + entropy)

\* Scru128Id.from_fields: range checks, then the packing
from_fields(timestamp, counter_hi, counter_lo, entropy) ==
    IF ~(  0 <= timestamp /\ timestamp <= MAX_TIMESTAMP
        /\ 0 <= counter_hi /\ counter_hi <= MAX_COUNTER_HI
        /\ 0 <= counter_lo /\ counter_lo <= MAX_COUNTER_LO
        /\ 0 <= entropy /\ entropy <= MAX_ENTROPY)
    THEN [raised |-> "invalid field value", value |-> NoId]
    ELSE Scru128Id(  timestamp * SHIFT_TIMESTAMP + counter_hi * SHIFT_COUNTER_HI
                   + counter_lo * SHIFT_COUNTER_LO + entropy)

\* Scru128Id.timestamp
id_timestamp(v) == (v \div SHIFT_TIMESTAMP) % (MAX_TIMESTAMP + 1)

id_counter_hi_wrong_shift(v) == (v \div SHIFT_COUNTER_LO) % (MAX_COUNTER_HI + 1)

\* Scru128Id.counter_hi
id_counter_hi(v) == (v \div SHIFT_COUNTER_HI) % (MAX_COUNTER_HI + 1)

\* Scru128Id.counter_lo
id_counter_lo(v) == (v \div SHIFT_COUNTER_LO) % (MAX_COUNTER_LO + 1)

\* Scru128Id.entropy
id_entropy(v) == v % (MAX_ENTROPY + 1)

\* Scru128Id.__lt__
id_lt(a, b) == a < b

(***************************************************************************)
(* Scru128Generator: the state and the core algorithm as pure operators on *)
(* a record g of the five fields.                                          *)
(***************************************************************************)
VARIABLES
    timestamp,       \* self._timestamp
    counter_hi,      \* self._counter_hi
    counter_lo,      \* self._counter_lo
    ts_counter_hi,   \* self._ts_counter_hi
    last_status,     \* self._last_status
    call,            \* the latest call: its arguments and how it ended
    last_id,         \* the identifier most recently returned by any call
    max_id,          \* the greatest identifier returned so far (history)
    earlier_id,      \* some identifier returned before last_id (history)
    only_abort,      \* no generate_or_reset_core call was made so far (history)
    in_allowance,    \* no call so far saw a significant rollback (history)
    first_call,      \* the arguments of the first call of a scenario (history)
    lock,            \* self._lock: the thread that holds it, or Nobody
    pc,              \* where each thread is in generate()
    local_ts,        \* generate()'s local variable timestamp, in milliseconds
    clock,           \* datetime.datetime.now(), in milliseconds
    frame,           \* each thread's call in progress: the entry point and its locals
    ended,           \* the latest call that ended after running statement by statement
    input,           \* the arguments passed to an operation of Scru128Id
    output           \* what that operation returned or raised

gen_vars == <<timestamp, counter_hi, counter_lo, ts_counter_hi, last_status>>

hist_vars == <<call, last_id, max_id, earlier_id, only_abort, in_allowance, first_call>>

thread_vars == <<lock, pc, local_ts, clock>>

aux_vars == <<frame, ended, input, output>>

vars == <<gen_vars, hist_vars, thread_vars, aux_vars>>

\* Scru128Generator.Status
Status == {"NOT_EXECUTED", "NEW_TIMESTAMP", "COUNTER_LO_INC", "COUNTER_HI_INC",
           "TIMESTAMP_INC", "CLOCK_ROLLBACK"}

\* the generator's fields as one record
Gen == [timestamp |-> timestamp, counter_hi |-> counter_hi, counter_lo |-> counter_lo,
        ts_counter_hi |-> ts_counter_hi, last_status |-> last_status]

\* Scru128Generator.__init__
NewGenerator == [timestamp |-> 0, counter_hi |-> 0, counter_lo |-> 0,
                 ts_counter_hi |-> 0, last_status |-> "NOT_EXECUTED"]

\* the results of getrandbits(k) the model draws from: the least and the
\* greatest k-bit value (every value in between is reached by the counters'
\* increments)
RngValues(max) == {0, max}

\* the values getrandbits returns in one call, in the order the code asks for
\* them: lo (24 bits, counter_lo), hi (24 bits, counter_hi), entropy (32 bits)
RngOutputs == [lo : RngValues(MAX_COUNTER_LO), hi : RngValues(MAX_COUNTER_HI),
               entropy : RngValues(MAX_ENTROPY)]

\* the outcome of one run of the core: the new state, what the caller gets
\* (outcome is "id", "None" or the exception's class), and the widths of the
\* getrandbits calls made
Ended(g, outcome, value, error, draws) ==
    [g |-> g, outcome |-> outcome, value |-> value, error |-> error, draws |-> draws]

ArgumentError_none(timestamp_arg, rollback_allowance) ==
    IF ~(1 <= timestamp_arg)
    THEN "timestamp must be a 48-bit positive integer"
    ELSE ""

\* lines 271-274: the validation of the arguments ("" when they are valid)
ArgumentError(timestamp_arg, rollback_allowance) ==
    IF ~(1 <= timestamp_arg /\ timestamp_arg <= MAX_TIMESTAMP)
    THEN "timestamp must be a 48-bit positive integer"
    ELSE IF ~(0 <= rollback_allowance /\ rollback_allowance <= MAX_TIMESTAMP)
    THEN "rollback_allowance out of reasonable range"
    ELSE ""

WithinAllowance_inclusive(g, timestamp_arg, rollback_allowance) ==
    timestamp_arg + rollback_allowance >= g.timestamp

\* line 280: the new timestamp is not much smaller than the previous one
WithinAllowance(g, timestamp_arg, rollback_allowance) ==
    timestamp_arg + rollback_allowance > g.timestamp

\* lines 277-279: adopt the new timestamp and reseed counter_lo
NewTimestamp(g, timestamp_arg, rng) ==
    [g EXCEPT !.timestamp = timestamp_arg,
              !.counter_lo = rng.lo,
              !.last_status = "NEW_TIMESTAMP"]

IncrementCounters_keeps_timestamp(g, rng) ==
    IF g.counter_lo + 1 > MAX_COUNTER_LO
    THEN IF g.counter_hi + 1 > MAX_COUNTER_HI
         THEN [g EXCEPT !.counter_lo = rng.lo,
                        !.counter_hi = 0,
                        !.last_status = "TIMESTAMP_INC"]
         ELSE [g EXCEPT !.counter_lo = 0,
                        !.counter_hi = g.counter_hi + 1,
                        !.last_status = "COUNTER_HI_INC"]
    ELSE [g EXCEPT !.counter_lo = g.counter_lo + 1,
                   !.last_status = "COUNTER_LO_INC"]

IncrementCounters_stale_status(g, rng) ==
    IF g.counter_lo + 1 > MAX_COUNTER_LO
    THEN IF g.counter_hi + 1 > MAX_COUNTER_HI
         THEN [g EXCEPT !.counter_lo = rng.lo,
                        !.counter_hi = 0,
                        !.timestamp = g.timestamp + 1,
                        !.last_status = "TIMESTAMP_INC"]
         ELSE [g EXCEPT !.counter_lo = 0,
                        !.counter_hi = g.counter_hi + 1,
                        !.last_status = "COUNTER_LO_INC"]
    ELSE [g EXCEPT !.counter_lo = g.counter_lo + 1,
                   !.last_status = "COUNTER_LO_INC"]

IncrementCounters_no_carry(g, rng) ==
    IF g.counter_lo + 1 > MAX_COUNTER_LO
    THEN [g EXCEPT !.counter_lo = 0, !.last_status = "COUNTER_HI_INC"]
    ELSE [g EXCEPT !.counter_lo = g.counter_lo + 1, !.last_status = "COUNTER_LO_INC"]

\* lines 282-293: increment counter_lo, carrying into counter_hi and timestamp
IncrementCounters(g, rng) ==
    IF g.counter_lo + 1 > MAX_COUNTER_LO
    THEN IF g.counter_hi + 1 > MAX_COUNTER_HI
         THEN [g EXCEPT !.counter_lo = rng.lo,
                        !.counter_hi = 0,
                        !.timestamp = g.timestamp + 1,
                        !.last_status = "TIMESTAMP_INC"]
         ELSE [g EXCEPT !.counter_lo = 0,
                        !.counter_hi = g.counter_hi + 1,
                        !.last_status = "COUNTER_HI_INC"]
    ELSE [g EXCEPT !.counter_lo = g.counter_lo + 1,
                   !.last_status = "COUNTER_LO_INC"]

\* one call of self._rng.getrandbits(k) and the field its result goes to
Draw(k, field) == [k |-> k, field |-> field]

\* the getrandbits call of line 292
IncrementDraws(g) ==
    IF g.counter_lo + 1 > MAX_COUNTER_LO /\ g.counter_hi + 1 > MAX_COUNTER_HI
    THEN <<Draw(24, "counter_lo")>> ELSE <<>>

ReseedDue_late(g) ==
    g.timestamp - g.ts_counter_hi > RESEED_INTERVAL \/ g.ts_counter_hi < 1

ReseedDue_every_call(g) == TRUE

\* line 298: counter_hi is due for a reseed
ReseedDue(g) ==
    g.timestamp - g.ts_counter_hi >= RESEED_INTERVAL \/ g.ts_counter_hi < 1

\* lines 298-300: reseed counter_hi and move the watermark
ReseedCounterHi(g, rng) ==
    IF ReseedDue(g)
    THEN [g EXCEPT !.ts_counter_hi = g.timestamp, !.counter_hi = rng.hi]
    ELSE g

BuildId_before_reseed(g, draws, rng) ==
    LET g2 == ReseedCounterHi(g, rng)
        d2 == IF ReseedDue(g) THEN Append(draws, Draw(24, "counter_hi")) ELSE draws
        made == from_fields(g.timestamp, g.counter_hi, g.counter_lo, rng.entropy)
    IN  IF made.raised = ""
        THEN Ended(g2, "id", made.value, "", Append(d2, Draw(32, "entropy")))
        ELSE Ended(g2, "ValueError", NoId, made.raised, Append(d2, Draw(32, "entropy")))

\* lines 298-307: the reseed of counter_hi, the entropy draw and from_fields
BuildId(g, draws, rng) ==
    LET g2 == ReseedCounterHi(g, rng)
        d2 == IF ReseedDue(g) THEN Append(draws, Draw(24, "counter_hi")) ELSE draws
        made == from_fields(g2.timestamp, g2.counter_hi, g2.counter_lo, rng.entropy)
    IN  IF made.raised = ""
        THEN Ended(g2, "id", made.value, "", Append(d2, Draw(32, "entropy")))
        ELSE Ended(g2, "ValueError", NoId, made.raised, Append(d2, Draw(32, "entropy")))

generate_or_abort_core_adopts_any(g, timestamp_arg, rollback_allowance, rng) ==
    IF ArgumentError(timestamp_arg, rollback_allowance) # ""
    THEN Ended(g, "ValueError", NoId, ArgumentError(timestamp_arg, rollback_allowance), <<>>)
    ELSE IF timestamp_arg # g.timestamp
    THEN BuildId(NewTimestamp(g, timestamp_arg, rng), <<Draw(24, "counter_lo")>>, rng)
    ELSE IF WithinAllowance(g, timestamp_arg, rollback_allowance)
    THEN BuildId(IncrementCounters(g, rng), IncrementDraws(g), rng)
    ELSE Ended(g, "None", NoId, "", <<>>)

generate_or_abort_core_marks_abort(g, timestamp_arg, rollback_allowance, rng) ==
    IF ArgumentError(timestamp_arg, rollback_allowance) # ""
    THEN Ended(g, "ValueError", NoId, ArgumentError(timestamp_arg, rollback_allowance), <<>>)
    ELSE IF timestamp_arg > g.timestamp
    THEN BuildId(NewTimestamp(g, timestamp_arg, rng), <<Draw(24, "counter_lo")>>, rng)
    ELSE IF WithinAllowance(g, timestamp_arg, rollback_allowance)
    THEN BuildId(IncrementCounters(g, rng), IncrementDraws(g), rng)
    ELSE Ended([g EXCEPT !.last_status = "CLOCK_ROLLBACK"], "None", NoId, "", <<>>)

\* Scru128Generator.generate_or_abort_core
generate_or_abort_core(g, timestamp_arg, rollback_allowance, rng) ==
    IF ArgumentError(timestamp_arg, rollback_allowance) # ""
    THEN Ended(g, "ValueError", NoId, ArgumentError(timestamp_arg, rollback_allowance), <<>>)
    ELSE IF timestamp_arg > g.timestamp
    THEN BuildId(NewTimestamp(g, timestamp_arg, rng), <<Draw(24, "counter_lo")>>, rng)
    ELSE IF WithinAllowance(g, timestamp_arg, rollback_allowance)
    THEN BuildId(IncrementCounters(g, rng), IncrementDraws(g), rng)
    ELSE Ended(g, "None", NoId, "", <<>>)

ResetState_keep_timestamp(g) == [g EXCEPT !.ts_counter_hi = 0]

\* lines 236-237: reset state
ResetState(g) == [g EXCEPT !.timestamp = 0, !.ts_counter_hi = 0]

generate_or_reset_core_unmarked(g, timestamp_arg, rollback_allowance, rng) ==
    LET first == generate_or_abort_core(g, timestamp_arg, rollback_allowance, rng)
        again == generate_or_abort_core(ResetState(g), timestamp_arg, rollback_allowance, rng)
    IN  IF first.outcome # "None"
        THEN first @@ [rerun |-> ""]
        ELSE again @@ [rerun |-> again.g.last_status]

\* Scru128Generator.generate_or_reset_core; rerun tells what the second run
\* of the core did ("" when there was none)
generate_or_reset_core(g, timestamp_arg, rollback_allowance, rng) ==
    LET first == generate_or_abort_core(g, timestamp_arg, rollback_allowance, rng)
        again == generate_or_abort_core(ResetState(g), timestamp_arg, rollback_allowance, rng)
        marked == [again.g EXCEPT !.last_status = "CLOCK_ROLLBACK"]
    IN  IF first.outcome # "None"
        THEN first @@ [rerun |-> ""]
        ELSE IF again.outcome = "ValueError"
        THEN again @@ [rerun |-> again.g.last_status]
        ELSE IF again.outcome = "None"
        THEN Ended(marked, "AssertionError", NoId, "assert value is not None", again.draws)
             @@ [rerun |-> "None"]
        ELSE [again EXCEPT !.g = marked] @@ [rerun |-> again.g.last_status]


(***************************************************************************)
(* The calls of the core functions as actions.  Every call is one step: it *)
(* replaces the generator's fields by the state the call leaves behind and *)
(* records the call and its result.                                        *)
(***************************************************************************)
\* the latest call: the method, the timestamp passed, whether the arguments
\* were in their valid ranges (valid), whether the timestamp passed was behind
\* the generator's timestamp by the allowance passed or more (far_back), the
\* identifier that was the latest returned when the call was made (previous),
\* and what the caller got
CallRecord(method, timestamp_arg, rollback_allowance, r) ==
    [method |-> method, timestamp |-> timestamp_arg,
     valid |-> (  1 <= timestamp_arg /\ timestamp_arg <= MAX_TIMESTAMP
                /\ 0 <= rollback_allowance /\ rollback_allowance <= MAX_TIMESTAMP),
     far_back |-> (timestamp_arg + rollback_allowance <= timestamp),
     previous |-> last_id,
     outcome |-> r.outcome, value |-> r.value, error |-> r.error,
     draws |-> r.draws, rerun |-> r.rerun]

NoCall == [method |-> "", timestamp |-> 0, valid |-> TRUE, far_back |-> FALSE,
           previous |-> NoId,
           outcome |-> "", value |-> NoId, error |-> "", draws |-> <<>>, rerun |-> ""]

\* history: the arguments of no call
NoArgs == [timestamp |-> 0, rollback_allowance |-> 0]

\* the valid arguments (lines 271 and 273)
ValidTimestamps == 1..MAX_TIMESTAMP

ValidAllowances == 0..MAX_TIMESTAMP

\* the arguments a caller may pass, the invalid ones next to both ends of the
\* valid ranges included
TimestampArgs == 0..(MAX_TIMESTAMP + 1)

AllowanceArgs == (-1)..(MAX_TIMESTAMP + 1)

\* the core function a method name stands for
RunCore(method, g, timestamp_arg, rollback_allowance, rng) ==
    IF method = "generate_or_abort_core"
    THEN generate_or_abort_core(g, timestamp_arg, rollback_allowance, rng) @@ [rerun |-> ""]
    ELSE generate_or_reset_core(g, timestamp_arg, rollback_allowance, rng)

ZeroRng == [lo |-> 0, hi |-> 0, entropy |-> 0]

\* the outputs of the RNG for the getrandbits calls a run makes (which calls
\* are made does not depend on the values returned); a value that is never
\* asked for is not enumerated
RngFor(draws) ==
    LET asked == {draws[i].field : i \in 1..Len(draws)}
    IN  {rng \in RngOutputs : /\ "counter_lo" \notin asked => rng.lo = 0
                              /\ "counter_hi" \notin asked => rng.hi = 0
                              /\ "entropy" \notin asked => rng.entropy = 0}

\* one call of a core function on the generator
CoreCall(method, timestamp_arg, rollback_allowance) ==
    \E rng \in RngFor(RunCore(method, Gen, timestamp_arg, rollback_allowance, ZeroRng).draws) :
    \E r \in {RunCore(method, Gen, timestamp_arg, rollback_allowance, rng)} :
        /\ timestamp' = r.g.timestamp
        /\ counter_hi' = r.g.counter_hi
        /\ counter_lo' = r.g.counter_lo
        /\ ts_counter_hi' = r.g.ts_counter_hi
        /\ last_status' = r.g.last_status
        /\ call' = CallRecord(method, timestamp_arg, rollback_allowance, r)
        /\ last_id' = IF r.outcome = "id" THEN r.value ELSE last_id

\* history: while track holds, max_id is the greatest identifier returned
TrackMax(track) ==
    max_id' = IF ~track THEN NoId
              ELSE IF last_id' > max_id THEN last_id' ELSE max_id

\* history: while track holds, earlier_id is any identifier returned before
\* last_id; the step that returns a new identifier may move it to the
\* identifier that was the latest so far
Remember(track) ==
    earlier_id' \in IF ~track THEN {NoId}
                    ELSE IF call'.outcome = "id" THEN {earlier_id, last_id}
                    ELSE {earlier_id}

\* history: the call saw no significant rollback (line 294 was not reached)
NoRollbackSeen(timestamp_arg, rollback_allowance) ==
    in_allowance' = (in_allowance /\ timestamp_arg + rollback_allowance > timestamp)

\* the threads, and the holder of a free lock
Threads == 1..THREADS

Nobody == 0

\* a thread's call in progress: the entry point called, whether
\* generate_or_reset_core is in its second run (rerun), the local variable
\* value of generate_or_reset_core, the generator's state when the core was
\* entered (start), the values drawn so far (lo, hi, entropy) and whether no
\* other thread was inside the core meanwhile (alone)
NoFrame == [entry |-> "", rerun |-> FALSE, value |-> NoId, start |-> NewGenerator,
            lo |-> 0, hi |-> 0, entropy |-> 0, alone |-> TRUE]

\* the latest call that ended: what the caller got, the identifier returned
\* before it (previous), whether it ran alone, whether some call so far did
\* not (raced), and whether it left the state and the result that one
\* uninterrupted run of the core leaves (atomic)
NoEnded == [thread |-> Nobody, entry |-> "", outcome |-> "",
            value |-> NoId, previous |-> NoId, alone |-> TRUE, raced |-> FALSE,
            atomic |-> TRUE]

\* no operation of Scru128Id asked for, and no result yet
NoInput == [op |-> ""]

NoOutput == [raised |-> "", pending |-> TRUE]

\* a fresh generator that no thread has called yet
Fresh ==
    /\ timestamp = NewGenerator.timestamp
    /\ counter_hi = NewGenerator.counter_hi
    /\ counter_lo = NewGenerator.counter_lo
    /\ ts_counter_hi = NewGenerator.ts_counter_hi
    /\ last_status = NewGenerator.last_status
    /\ call = NoCall
    /\ last_id = NoId
    /\ max_id = NoId
    /\ earlier_id = NoId
    /\ only_abort = TRUE
    /\ in_allowance = TRUE
    /\ first_call = NoArgs
    /\ lock = Nobody
    /\ pc = [t \in Threads |-> "idle"]
    /\ local_ts = [t \in Threads |-> 0]
    /\ clock = 0
    /\ frame = [t \in Threads |-> NoFrame]
    /\ ended = NoEnded

Init ==
    /\ Fresh
    /\ input = NoInput
    /\ output = NoOutput

(***************************************************************************)
(* Spec: one generator, called by one thread through both core functions   *)
(* with any valid arguments.                                               *)
(***************************************************************************)
GenerateOrAbortCore ==
    \E t \in ValidTimestamps, a \in ValidAllowances :
        /\ CoreCall("generate_or_abort_core", t, a)
        /\ only_abort' = only_abort
        /\ TrackMax(only_abort')
        /\ UNCHANGED <<earlier_id, in_allowance, first_call, thread_vars, aux_vars>>

GenerateOrResetCore ==
    \E t \in ValidTimestamps, a \in ValidAllowances :
        /\ CoreCall("generate_or_reset_core", t, a)
        /\ only_abort' = FALSE
        /\ TrackMax(only_abort')
        /\ UNCHANGED <<earlier_id, in_allowance, first_call, thread_vars, aux_vars>>

Next == GenerateOrAbortCore \/ GenerateOrResetCore

Spec == Init /\ [][Next]_vars

(***************************************************************************)
(* SpecArgs: the same calls with any arguments, the invalid ones included. *)
(***************************************************************************)
AbortCoreAnyArgs ==
    \E t \in TimestampArgs, a \in AllowanceArgs :
        /\ CoreCall("generate_or_abort_core", t, a)
        /\ UNCHANGED <<max_id, earlier_id, only_abort, in_allowance, first_call, thread_vars, aux_vars>>

ResetCoreAnyArgs ==
    \E t \in TimestampArgs, a \in AllowanceArgs :
        /\ CoreCall("generate_or_reset_core", t, a)
        /\ UNCHANGED <<max_id, earlier_id, only_abort, in_allowance, first_call, thread_vars, aux_vars>>

NextArgs == AbortCoreAnyArgs \/ ResetCoreAnyArgs

SpecArgs == Init /\ [][NextArgs]_vars

(***************************************************************************)
(* SpecDecreasing: the scenario of test_decreasing_or_constant_timestamp.  *)
(* A first generate_or_reset_core(ts, A) on a fresh generator, then calls  *)
(* generate_or_reset_core(t, A) whose timestamps never increase and stay   *)
(* within the allowance of the first: ts - A < t <= ts.                    *)
(***************************************************************************)
FirstCall ==
    \E ts \in ValidTimestamps, a \in ValidAllowances :
        /\ first_call = NoArgs
        /\ CoreCall("generate_or_reset_core", ts, a)
        /\ first_call' = [timestamp |-> ts, rollback_allowance |-> a]
        /\ NoRollbackSeen(ts, a)
        /\ only_abort' = FALSE
        /\ TrackMax(TRUE)
        /\ UNCHANGED <<earlier_id, thread_vars, aux_vars>>

LaterCall ==
    \E t \in ValidTimestamps :
        /\ first_call # NoArgs
        /\ t <= call.timestamp
        /\ first_call.timestamp - first_call.rollback_allowance < t
        /\ t <= first_call.timestamp
        /\ CoreCall("generate_or_reset_core", t, first_call.rollback_allowance)
        /\ NoRollbackSeen(t, first_call.rollback_allowance)
        /\ TrackMax(TRUE)
        /\ UNCHANGED <<earlier_id, only_abort, first_call, thread_vars, aux_vars>>

NextDecreasing == FirstCall \/ LaterCall

SpecDecreasing == Init /\ [][NextDecreasing]_vars

(***************************************************************************)
(* SpecNonDecreasing: generate_or_reset_core calls with any valid          *)
(* allowances and with timestamps that never decrease from one call to the *)
(* next.                                                                   *)
(***************************************************************************)
ResetCoreNonDecreasing ==
    \E t \in ValidTimestamps, a \in ValidAllowances :
        /\ t >= call.timestamp
        /\ CoreCall("generate_or_reset_core", t, a)
        /\ NoRollbackSeen(t, a)
        /\ only_abort' = FALSE
        /\ TrackMax(TRUE)
        /\ UNCHANGED <<earlier_id, first_call, thread_vars, aux_vars>>

SpecNonDecreasing == Init /\ [][ResetCoreNonDecreasing]_vars

(***************************************************************************)
(* SpecThreads: THREADS threads call generate() (new() is generate() on    *)
(* the global generator) again and again.  The steps of one call are the   *)
(* statements of lines 198-202; the clock is read where the code reads it  *)
(* and never moves backward.                                               *)
(***************************************************************************)
\* line 198: with self._lock (threading.Lock.acquire blocks while it is held)
Acquire(t) ==
    /\ pc[t] = "idle"
    /\ lock = Nobody
    /\ lock' = t
    /\ pc' = [pc EXCEPT ![t] = "locked"]
    /\ UNCHANGED <<gen_vars, hist_vars, local_ts, clock, aux_vars>>

\* line 199: timestamp = datetime.datetime.now().timestamp()
ReadClock(t) ==
    /\ pc[t] = "locked"
    /\ local_ts' = [local_ts EXCEPT ![t] = clock]
    /\ pc' = [pc EXCEPT ![t] = "timed"]
    /\ UNCHANGED <<gen_vars, hist_vars, lock, clock, aux_vars>>

\* lines 200-202: self.generate_or_reset_core(int(timestamp * 1_000),
\* DEFAULT_ROLLBACK_ALLOWANCE)
CallResetCore(t) ==
    /\ pc[t] = "timed"
    /\ CoreCall("generate_or_reset_core", local_ts[t], DEFAULT_ROLLBACK_ALLOWANCE)
    /\ NoRollbackSeen(local_ts[t], DEFAULT_ROLLBACK_ALLOWANCE)
    /\ Remember(TRUE)
    /\ only_abort' = FALSE
    /\ pc' = [pc EXCEPT ![t] = "leaving"]
    /\ UNCHANGED <<max_id, first_call, lock, local_ts, clock, aux_vars>>

Release_not_on_error(t) ==
    /\ pc[t] = "leaving"
    /\ lock' = IF ended.thread = t /\ ended.outcome \notin {"id", "None"}
               THEN lock ELSE Nobody
    /\ pc' = [pc EXCEPT ![t] = "idle"]
    /\ local_ts' = [local_ts EXCEPT ![t] = 0]
    /\ UNCHANGED <<gen_vars, hist_vars, clock, aux_vars>>

\* the end of the with block, left by the return or by an exception
Release(t) ==
    /\ pc[t] = "leaving"
    /\ lock' = Nobody
    /\ pc' = [pc EXCEPT ![t] = "idle"]
    /\ local_ts' = [local_ts EXCEPT ![t] = 0]
    /\ UNCHANGED <<gen_vars, hist_vars, clock, aux_vars>>

\* the clock advances by a millisecond
Tick ==
    /\ clock <= MAX_TIMESTAMP
    /\ clock' = clock + 1
    /\ UNCHANGED <<gen_vars, hist_vars, lock, pc, local_ts, aux_vars>>

NextThreads ==
    \/ \E t \in Threads : Acquire(t) \/ ReadClock(t) \/ CallResetCore(t) \/ Release(t)
    \/ Tick

SpecThreads == Init /\ [][NextThreads]_vars

(***************************************************************************)
(* The claims about the core functions.                                    *)
(***************************************************************************)
\* the latest call returned an identifier
Returned == call.outcome = "id"

\* the latest call took the reset path of generate_or_reset_core (lines 235-240)
TookResetPath == call.rerun # ""

\* C1: in any mix of generate_or_abort_core and generate_or_reset_core calls
\* with valid arguments, an identifier returned by a call that did not take
\* the reset path is strictly greater than the identifier returned before it;
\* and while only generate_or_abort_core has been called, an identifier
\* returned is strictly greater than every identifier returned before it.
C1_MonotonicUnlessReset ==
    [][ /\ (Returned' /\ ~TookResetPath' /\ last_id # NoId) => id_lt(last_id, call'.value)
        /\ (Returned' /\ only_abort' /\ max_id # NoId) => id_lt(max_id, call'.value)
      ]_vars

\* C1 witness: an abort-only run has returned an identifier after a carry from
\* counter_lo into counter_hi, with earlier identifiers to compare with.
C1_Witness ==
    /\ Returned /\ ~TookResetPath /\ only_abort
    /\ max_id # NoId
    /\ last_status = "COUNTER_HI_INC"

\* C5: generate_or_abort_core with valid arguments returns None exactly when
\* timestamp + rollback_allowance <= last_timestamp, and never on a generator
\* that has not generated yet.
C5_NoneIffFarBack ==
    /\ (call.method = "generate_or_abort_core" /\ call.valid)
           => (call.outcome = "None" <=> call.far_back)
    /\ ~(call.outcome = "None" /\ last_status = "NOT_EXECUTED")

\* C5 witness: generate_or_abort_core has returned None on a timestamp behind
\* the generator's by the allowance or more.
C5_Witness ==
    /\ call.method = "generate_or_abort_core"
    /\ call.outcome = "None" /\ call.far_back
    /\ last_id # NoId

\* C6: a generate_or_abort_core call that returns None changes no field of
\* the generator and calls getrandbits not once.
C6_NoneChangesNothing ==
    [][ (call'.method = "generate_or_abort_core" /\ call'.outcome = "None")
            => (UNCHANGED gen_vars /\ call'.draws = <<>>) ]_vars

\* C6 witness: generate_or_abort_core has returned None on a generator whose
\* counters have been incremented.
C6_Witness ==
    /\ call.method = "generate_or_abort_core" /\ call.outcome = "None"
    /\ last_status = "COUNTER_LO_INC"

C8_ResetNeverNone ==
    call.method = "generate_or_reset_core"
        => /\ call.outcome \notin {"None", "AssertionError"}
           /\ TookResetPath => (call.rerun = "NEW_TIMESTAMP" /\ Returned)

\* C8 witness: the first run of generate_or_reset_core has aborted and the
\* second has been made.
C8_Witness ==
    /\ call.method = "generate_or_reset_core" /\ call.far_back
    /\ TookResetPath

\* C9 as stated: with valid arguments, in every reachable state, neither core
\* function raises.
C9_ValidArgsNeverRaise ==
    call.valid => call.outcome \in {"", "id", "None"}

\* C10: both core functions reject an invalid timestamp or rollback_allowance
\* with the ValueError of the validation, change no field of the generator
\* and call getrandbits not once.
C10_InvalidArgsRejected ==
    [][ ~call'.valid
            => /\ call'.outcome = "ValueError"
               /\ call'.error \in {"timestamp must be a 48-bit positive integer",
                                   "rollback_allowance out of reasonable range"}
               /\ UNCHANGED gen_vars
               /\ call'.draws = <<>> ]_vars

\* C10 witness: a call with an invalid argument has been rejected on a
\* generator that had generated before.
C10_Witness ==
    /\ ~call.valid /\ call.outcome = "ValueError"
    /\ last_status # "NOT_EXECUTED"

\* the statuses of the branch that goes on with the previous timestamp
CounterStatuses == {"COUNTER_LO_INC", "COUNTER_HI_INC", "TIMESTAMP_INC"}

\* a call after the first of the scenario of SpecDecreasing
IsLaterCall == first_call # NoArgs /\ call.previous # NoId

\* C2 as stated: after generate_or_reset_core(ts, A) on a fresh generator,
\* calls generate_or_reset_core(t, A) with non-increasing t in (ts - A, ts]
\* return strictly increasing identifiers, never take the reset path
\* (last_status is one of the three counter statuses), and the identifiers'
\* timestamps are >= ts.
C2_DecreasingWithinFirstAllowance ==
    IsLaterCall
        => /\ last_status \in CounterStatuses
           /\ Returned => /\ id_lt(call.previous, call.value)
                          /\ id_timestamp(call.value) >= first_call.timestamp

\* C2 amended: the same, for calls whose timestamps are within the allowance
\* of the generator's last_timestamp at the time of each call
\* (t + A > last_timestamp) rather than of the first timestamp.
C2_DecreasingWithinAllowance ==
    (IsLaterCall /\ in_allowance)
        => /\ last_status \in CounterStatuses
           /\ Returned => /\ id_lt(call.previous, call.value)
                          /\ id_timestamp(call.value) >= first_call.timestamp

\* C2 witness: a later call of the scenario, within the allowance like all
\* before it, has carried the counters into the timestamp and returned.
C2_Witness ==
    /\ IsLaterCall /\ in_allowance /\ Returned
    /\ call.timestamp < first_call.timestamp
    /\ last_status = "TIMESTAMP_INC"

Triple(v) == <<id_timestamp(v), id_counter_hi(v), id_counter_lo(v)>>

\* C4 as stated: when threads call generate() concurrently and the clock
\* never moves backward, no two identifiers returned share their
\* (timestamp, counter_hi, counter_lo) triple.
C4_DistinctTriples ==
    (last_id # NoId /\ earlier_id # NoId) => Triple(last_id) # Triple(earlier_id)

\* C4 amended: the same, as long as no call has reset the generator, that is,
\* while every clock reading was less than DEFAULT_ROLLBACK_ALLOWANCE behind
\* the generator's last_timestamp.
C4_DistinctTriplesUnlessReset ==
    (in_allowance /\ last_id # NoId /\ earlier_id # NoId)
        => Triple(last_id) # Triple(earlier_id)

\* C4 witness: the threads have taken turns and the second has got an
\* identifier with the timestamp of an earlier one, without a reset.
C4_Witness ==
    /\ in_allowance /\ Returned
    /\ pc[2] = "leaving" /\ lock = 2
    /\ earlier_id # NoId
    /\ id_timestamp(earlier_id) = id_timestamp(last_id)

(***************************************************************************)
(* The core functions statement by statement.  A thread inside the core is *)
(* at one of: core (lines 271-296), reseed (lines 298-300), build (lines   *)
(* 302-307), and for generate_or_reset_core reset (lines 235-237) and mark *)
(* (lines 239-241).  Threads switch between these steps only, which is     *)
(* some of the switches the interpreter can make.                          *)
(***************************************************************************)
InsideCore == {"core", "reseed", "build", "reset", "mark"}

\* another thread is inside the core
Others(t) == \E u \in Threads \ {t} : pc[u] \in InsideCore

\* the assignments to the generator's fields
SetGen(g) ==
    /\ timestamp' = g.timestamp
    /\ counter_hi' = g.counter_hi
    /\ counter_lo' = g.counter_lo
    /\ ts_counter_hi' = g.ts_counter_hi
    /\ last_status' = g.last_status

\* the frames after a step of thread t that leaves it with the frame f: t and
\* every thread inside the core with it have not run alone
Step(t, f) ==
    frame' = [u \in Threads |->
                 IF u = t THEN [f EXCEPT !.alone = f.alone /\ ~Others(t)]
                 ELSE IF pc[u] \in InsideCore THEN [frame[u] EXCEPT !.alone = FALSE]
                 ELSE frame[u]]

\* the identifier most recently returned by a call that ended
LastReturned == IF ended.outcome = "id" THEN ended.value ELSE ended.previous

\* the entry points that run generate_or_reset_core, and those that run a
\* core function under self._lock
ResetEntries == {"generate", "generate_or_reset_core"}

LockedEntries == {"generate", "generate_or_abort"}

\* one uninterrupted run of the core the entry point calls, from the state
\* the call started in and with the values the call drew
AtomicRun(f, timestamp_arg) ==
    LET rng == [lo |-> f.lo, hi |-> f.hi, entropy |-> f.entropy]
    IN  IF f.entry \in ResetEntries
        THEN generate_or_reset_core(f.start, timestamp_arg, DEFAULT_ROLLBACK_ALLOWANCE, rng)
        ELSE generate_or_abort_core(f.start, timestamp_arg, DEFAULT_ROLLBACK_ALLOWANCE, rng)

\* the call of thread t ends: the state g and the result are what the caller
\* and the other threads see from now on; the frame of the core is gone
EndCall(t, f, g, outcome, value) ==
    /\ ended' = [thread |-> t, entry |-> f.entry,
                 outcome |-> outcome, value |-> value, previous |-> LastReturned,
                 alone |-> f.alone /\ ~Others(t),
                 raced |-> ended.raced \/ ~f.alone \/ Others(t),
                 atomic |-> LET r == AtomicRun(f, local_ts[t])
                            IN  r.g = g /\ r.outcome = outcome /\ r.value = value]
    /\ Step(t, NoFrame)
    /\ pc' = [pc EXCEPT ![t] = IF f.entry \in LockedEntries THEN "leaving" ELSE "idle"]
    /\ local_ts' = IF f.entry \in LockedEntries THEN local_ts
                   ELSE [local_ts EXCEPT ![t] = 0]

\* lines 271-296: the validation and the branch on the timestamp
CoreStep(t) ==
    /\ pc[t] = "core"
    /\ LET ts == local_ts[t]
           f == frame[t]
       IN  IF ArgumentError(ts, DEFAULT_ROLLBACK_ALLOWANCE) # ""
           THEN /\ EndCall(t, f, Gen, "ValueError", NoId)
                /\ UNCHANGED gen_vars
           ELSE IF ts > timestamp \/ WithinAllowance(Gen, ts, DEFAULT_ROLLBACK_ALLOWANCE)
           THEN \E rng \in RngFor(IF ts > timestamp THEN <<Draw(24, "counter_lo")>>
                                  ELSE IncrementDraws(Gen)) :
                    /\ SetGen(IF ts > timestamp THEN NewTimestamp(Gen, ts, rng)
                              ELSE IncrementCounters(Gen, rng))
                    /\ Step(t, [f EXCEPT !.lo = rng.lo])
                    /\ pc' = [pc EXCEPT ![t] = "reseed"]
                    /\ UNCHANGED <<ended, local_ts>>
           ELSE IF f.entry \in ResetEntries
           THEN /\ Step(t, [f EXCEPT !.value = NoId])
                /\ pc' = [pc EXCEPT ![t] = IF f.rerun THEN "mark" ELSE "reset"]
                /\ UNCHANGED <<gen_vars, ended, local_ts>>
           ELSE /\ EndCall(t, f, Gen, "None", NoId)
                /\ UNCHANGED gen_vars
    /\ UNCHANGED <<hist_vars, lock, clock, input, output>>

\* lines 298-300: the reseed of counter_hi
ReseedStep(t) ==
    /\ pc[t] = "reseed"
    /\ \E rng \in RngFor(IF ReseedDue(Gen) THEN <<Draw(24, "counter_hi")>> ELSE <<>>) :
           /\ SetGen(ReseedCounterHi(Gen, rng))
           /\ Step(t, [frame[t] EXCEPT !.hi = rng.hi])
    /\ pc' = [pc EXCEPT ![t] = "build"]
    /\ UNCHANGED <<hist_vars, lock, local_ts, clock, ended, input, output>>

\* lines 302-307: the entropy draw and from_fields on the fields as they are
BuildStep(t) ==
    /\ pc[t] = "build"
    /\ \E rng \in RngFor(<<Draw(32, "entropy")>>) :
           LET made == from_fields(timestamp, counter_hi, counter_lo, rng.entropy)
               f == [frame[t] EXCEPT !.entropy = rng.entropy]
           IN  IF made.raised # ""
               THEN EndCall(t, f, Gen, "ValueError", NoId)
               ELSE IF f.rerun
               THEN /\ Step(t, [f EXCEPT !.value = made.value])
                    /\ pc' = [pc EXCEPT ![t] = "mark"]
                    /\ UNCHANGED <<ended, local_ts>>
               ELSE EndCall(t, f, Gen, "id", made.value)
    /\ UNCHANGED <<gen_vars, hist_vars, lock, clock, input, output>>

\* lines 235-237: the first run returned None; reset state and resume
ResetStep(t) ==
    /\ pc[t] = "reset"
    /\ SetGen(ResetState(Gen))
    /\ Step(t, [frame[t] EXCEPT !.rerun = TRUE, !.lo = 0, !.hi = 0])
    /\ pc' = [pc EXCEPT ![t] = "core"]
    /\ UNCHANGED <<hist_vars, lock, local_ts, clock, ended, input, output>>

\* lines 239-241: the status of the reset, the assertion and the return
MarkStep(t) ==
    /\ pc[t] = "mark"
    /\ SetGen([Gen EXCEPT !.last_status = "CLOCK_ROLLBACK"])
    /\ EndCall(t, frame[t], [Gen EXCEPT !.last_status = "CLOCK_ROLLBACK"],
               IF frame[t].value = NoId THEN "AssertionError" ELSE "id", frame[t].value)
    /\ UNCHANGED <<hist_vars, lock, clock, input, output>>

(***************************************************************************)
(* SpecLocked: THREADS threads call generate() and generate_or_abort(),    *)
(* whose bodies run statement by statement under self._lock.               *)
(***************************************************************************)
LockedEnter_unguarded(t, entry) ==
    /\ pc[t] = "idle"
    /\ lock' = t
    /\ pc' = [pc EXCEPT ![t] = "locked"]
    /\ frame' = [frame EXCEPT ![t] = [NoFrame EXCEPT !.entry = entry]]
    /\ UNCHANGED <<gen_vars, hist_vars, local_ts, clock, ended, input, output>>

\* lines 198 and 211: with self._lock, in generate() or generate_or_abort()
LockedEnter(t, entry) ==
    /\ pc[t] = "idle"
    /\ lock = Nobody
    /\ lock' = t
    /\ pc' = [pc EXCEPT ![t] = "locked"]
    /\ frame' = [frame EXCEPT ![t] = [NoFrame EXCEPT !.entry = entry]]
    /\ UNCHANGED <<gen_vars, hist_vars, local_ts, clock, ended, input, output>>

\* lines 199 and 212: the clock is read, and the core is called with it
LockedReadClock(t) ==
    /\ pc[t] = "locked"
    /\ local_ts' = [local_ts EXCEPT ![t] = clock]
    /\ Step(t, [frame[t] EXCEPT !.start = Gen])
    /\ pc' = [pc EXCEPT ![t] = "core"]
    /\ UNCHANGED <<gen_vars, hist_vars, lock, clock, ended, input, output>>

NextLocked ==
    \/ \E t \in Threads :
           \/ LockedEnter(t, "generate")
           \/ LockedEnter(t, "generate_or_abort")
           \/ LockedReadClock(t)
           \/ CoreStep(t) \/ ReseedStep(t) \/ BuildStep(t)
           \/ ResetStep(t) \/ MarkStep(t)
           \/ Release(t)
    \/ Tick

SpecLocked == Init /\ [][NextLocked]_vars

\* the threads between the acquisition of the lock and its release
Locked == {t \in Threads : pc[t] \in InsideCore \cup {"locked", "leaving"}}

\* C11: generate() and generate_or_abort() hold the one lock from before the
\* clock read to after the return of the core: at most one thread is in
\* between, it is the holder of the lock, and every call that ended ran alone
\* and left the state and the result of one uninterrupted run of its core.
C11_LockSerializes ==
    /\ Cardinality(Locked) <= 1
    /\ \A t \in Locked : lock = t
    /\ ended.alone /\ ended.atomic

\* C11 witness: a call of generate() by one thread has ended with an
\* identifier, and another thread is inside the core of generate_or_abort()
\* with the lock.
C11_Witness ==
    /\ ended.entry = "generate" /\ ended.outcome = "id" /\ ended.thread = 1
    /\ pc[2] = "build" /\ frame[2].entry = "generate_or_abort"
    /\ lock = 2

(***************************************************************************)
(* SpecRace: THREADS threads call generate_or_abort_core on one generator   *)
(* with no lock, with any valid timestamps and DEFAULT_ROLLBACK_ALLOWANCE. *)
(* The scenario is followed until the calls that overlapped have ended: no *)
(* call starts after that, which leaves out no state in which every call   *)
(* ran alone.                                                              *)
(***************************************************************************)
\* a thread calls a core function
RaceEnter(t, entry) ==
    /\ pc[t] = "idle"
    /\ ~ended.raced
    /\ \E ts \in ValidTimestamps : local_ts' = [local_ts EXCEPT ![t] = ts]
    /\ Step(t, [NoFrame EXCEPT !.entry = entry, !.start = Gen])
    /\ pc' = [pc EXCEPT ![t] = "core"]
    /\ UNCHANGED <<gen_vars, hist_vars, lock, clock, ended, input, output>>

NextRace ==
    \E t \in Threads :
        \/ RaceEnter(t, "generate_or_abort_core")
        \/ CoreStep(t) \/ ReseedStep(t) \/ BuildStep(t)

SpecRace == Init /\ [][NextRace]_vars

\* C12: the core functions are safe only when their runs do not overlap: as
\* long as every call ran alone, a call leaves the state and the result of
\* one uninterrupted run and generate_or_abort_core returns increasing
\* identifiers; the witness is the interleaving in which they are not.
C12_SafeOnlyAlone ==
    ~ended.raced
        => /\ ended.atomic
           /\ (  ended.entry = "generate_or_abort_core" /\ ended.outcome = "id"
              /\ ended.previous # NoId) => id_lt(ended.previous, ended.value)

\* C12 witness: two runs of generate_or_abort_core have overlapped and
\* returned identifiers with the same (timestamp, counter_hi, counter_lo).
C12_Witness ==
    /\ ended.entry = "generate_or_abort_core" /\ ended.outcome = "id"
    /\ ~ended.alone /\ ~ended.atomic
    /\ ended.previous # NoId
    /\ Triple(ended.value) = Triple(ended.previous)

(***************************************************************************)
(* Scru128Id: the text codec, the comparisons and the hash.  A string is a *)
(* sequence of one-character strings.  The alphabet and the length of the  *)
(* canonical string are scaled down with the fields: the source has 36     *)
(* digits and 25 positions, and 36^24 <= 2^128 - 1 < 36^25.                *)
(***************************************************************************)
DIGITS_letters_first == <<"A", "B", "0", "1">>

\* line 33: DIGITS = "0123456789ABCDEFGHIJKLMNOPQRSTUVWXYZ"
DIGITS == <<"0", "1", "A", "B">>

\* the radix of the notation (the source's 36)
RADIX == Len(DIGITS)

\* lines 71 and 101: the number of digits of the string representation
STR_LEN == 3

\* the modulus of hash() on integers (the interpreter's 2^61 - 1)
HASH_MODULUS == 7

\* the characters of the strings passed to from_str
Whitespace == {" ", "\n"}

Signs == {"+", "-"}

LowerOf == [c \in {"A", "B"} |-> IF c = "A" THEN "a" ELSE "b"]

\* [0-9A-Za-z] of line 71, as far as the alphabet goes
Alnum == {DIGITS[i] : i \in 1..RADIX} \cup {LowerOf[c] : c \in DOMAIN LowerOf}

Chars == Alnum \cup Whitespace \cup Signs

\* the code point of a character
Ord == [c \in Chars |->
           CASE c = "\n" -> 10 [] c = " " -> 32 [] c = "+" -> 43 [] c = "-" -> 45
             [] c = "0" -> 48 [] c = "1" -> 49 [] c = "A" -> 65 [] c = "B" -> 66
             [] c = "a" -> 97 [] c = "b" -> 98]

\* the value of a digit in int(str_value, 36), which takes both letter cases
DigitValue(c) ==
    CASE c = "0" -> 0 [] c = "1" -> 1 [] c \in {"A", "a"} -> 2 [] c \in {"B", "b"} -> 3

\* line 71: re.match(r"^[0-9A-Za-z]{25}$", str_value); $ matches at the end
\* of the string and before a newline that ends the string
MatchesPattern(str_value) ==
    \/ /\ Len(str_value) = STR_LEN
       /\ \A i \in 1..STR_LEN : str_value[i] \in Alnum
    \/ /\ Len(str_value) = STR_LEN + 1
       /\ \A i \in 1..STR_LEN : str_value[i] \in Alnum
       /\ str_value[STR_LEN + 1] = "\n"

RECURSIVE LStrip(_)
\* str.lstrip of the whitespace, as int() does
LStrip(str_value) ==
    IF str_value # <<>> /\ Head(str_value) \in Whitespace
    THEN LStrip(Tail(str_value)) ELSE str_value

RECURSIVE RStrip(_)
\* str.rstrip of the whitespace, as int() does
RStrip(str_value) ==
    IF str_value # <<>> /\ str_value[Len(str_value)] \in Whitespace
    THEN RStrip(SubSeq(str_value, 1, Len(str_value) - 1)) ELSE str_value

RECURSIVE DigitsValue(_, _)
\* the positional value of a sequence of digits, most significant first
DigitsValue(digits, acc) ==
    IF digits = <<>> THEN acc
    ELSE DigitsValue(Tail(digits), acc * RADIX + DigitValue(Head(digits)))

\* line 73: int(str_value, 36): whitespace around the literal is dropped, a
\* sign may lead, and at least one digit follows
int(str_value) ==
    LET literal == RStrip(LStrip(str_value))
        signed == literal # <<>> /\ Head(literal) \in Signs
        digits == IF signed THEN Tail(literal) ELSE literal
    IN  IF digits = <<>> \/ \E i \in 1..Len(digits) : digits[i] \notin Alnum
        THEN [raised |-> "invalid literal for int()", value |-> NoId]
        ELSE [raised |-> "",
              value |-> IF signed /\ Head(literal) = "-" THEN 0 - DigitsValue(digits, 0)
                        ELSE DigitsValue(digits, 0)]

\* Scru128Id.from_str
from_str(str_value) ==
    IF ~MatchesPattern(str_value)
    THEN [raised |-> "invalid string representation", value |-> NoId]
    ELSE IF int(str_value).raised # ""
    THEN int(str_value)
    ELSE Scru128Id(int(str_value).value)

RECURSIVE StrLoop(_, _, _)
StrLoop_left_to_right(n, i, buffer) ==
    IF i = STR_LEN THEN buffer
    ELSE StrLoop(n \div RADIX, i + 1, [buffer EXCEPT ![i + 1] = DIGITS[(n % RADIX) + 1]])

\* lines 103-105: for i in range(25): one divmod and one digit, from the right
StrLoop(n, i, buffer) ==
    IF i = STR_LEN THEN buffer
    ELSE StrLoop(n \div RADIX, i + 1, [buffer EXCEPT ![STR_LEN - i] = DIGITS[(n % RADIX) + 1]])

\* Scru128Id.__str__
str(v) == StrLoop(v, 0, [i \in 1..STR_LEN |-> "0"])

\* Scru128Id.__eq__
id_eq(a, b) == a = b

\* Scru128Id.__hash__
id_hash(v) == v % HASH_MODULUS

\* the four accessors of an identifier
Fields(v) == <<id_timestamp(v), id_counter_hi(v), id_counter_lo(v), id_entropy(v)>>

RECURSIVE SeqLess(_, _)
\* the lexicographic order of two sequences of integers (Python's < on
\* tuples, and on strings by code point)
SeqLess(x, y) ==
    IF y = <<>> THEN FALSE
    ELSE IF x = <<>> THEN TRUE
    ELSE IF Head(x) # Head(y) THEN Head(x) < Head(y)
    ELSE SeqLess(Tail(x), Tail(y))

\* str(a) < str(b)
StrLess(x, y) ==
    SeqLess([i \in 1..Len(x) |-> Ord[x[i]]], [i \in 1..Len(y) |-> Ord[y[i]]])

(***************************************************************************)
(* SpecId: one operation of Scru128Id is applied to arguments drawn from   *)
(* bounded sets, the invalid ones next to the valid ranges included.       *)
(***************************************************************************)
\* the strings of up to one character more than the canonical length
Strings == UNION {[1..n -> Chars] : n \in 0..(STR_LEN + 1)}

\* the integers next to and in the range of the packed value
IntArgs == (-1)..(MAX_INT_VALUE + 1)

Inputs ==
         {[op |-> "from_str", str_value |-> s] : s \in Strings}
    \cup {[op |-> "Scru128Id", int_value |-> x] : x \in IntArgs}
    \cup {[op |-> "from_fields", timestamp |-> t, counter_hi |-> h,
           counter_lo |-> l, entropy |-> e] :
             t \in (-1)..(MAX_TIMESTAMP + 1), h \in (-1)..(MAX_COUNTER_HI + 1),
             l \in (-1)..(MAX_COUNTER_LO + 1), e \in (-1)..(MAX_ENTROPY + 1)}
    \cup {[op |-> "compare", a |-> a, b |-> b] : a, b \in 0..MAX_INT_VALUE}

InitId ==
    /\ Fresh
    /\ input \in Inputs
    /\ output = NoOutput

\* what an operation that made the identifier v gives, with its string
Made(made) ==
    [pending |-> FALSE, raised |-> made.raised, value |-> made.value,
     fields |-> IF made.raised = "" THEN Fields(made.value) ELSE <<>>,
     text |-> IF made.raised = "" THEN str(made.value) ELSE <<>>]

\* e = Scru128Id.from_str(s), then its accessors and str(e)
FromStr ==
    /\ input.op = "from_str" /\ output.pending
    /\ output' = Made(from_str(input.str_value))
    /\ UNCHANGED <<gen_vars, hist_vars, thread_vars, frame, ended, input>>

\* e = Scru128Id(x), then Scru128Id.from_str(str(e)) and
\* Scru128Id.from_fields(e.timestamp, e.counter_hi, e.counter_lo, e.entropy)
Construct ==
    /\ input.op = "Scru128Id" /\ output.pending
    /\ LET made == Scru128Id(input.int_value)
           v == made.value
       IN  output' = Made(made) @@
               [back |-> IF made.raised = "" THEN from_str(str(v)) ELSE made,
                refields |-> IF made.raised = ""
                             THEN from_fields(id_timestamp(v), id_counter_hi(v),
                                              id_counter_lo(v), id_entropy(v))
                             ELSE made]
    /\ UNCHANGED <<gen_vars, hist_vars, thread_vars, frame, ended, input>>

\* e = Scru128Id.from_fields(...), then its accessors and str(e)
FromFields ==
    /\ input.op = "from_fields" /\ output.pending
    /\ output' = Made(from_fields(input.timestamp, input.counter_hi,
                                  input.counter_lo, input.entropy))
    /\ UNCHANGED <<gen_vars, hist_vars, thread_vars, frame, ended, input>>

\* a < b, a == b, str(a) < str(b), the accessors' tuples and the hashes
Compare ==
    /\ input.op = "compare" /\ output.pending
    /\ output' = [pending |-> FALSE, raised |-> "",
                  lt |-> id_lt(input.a, input.b),
                  eq |-> id_eq(input.a, input.b),
                  str_lt |-> StrLess(str(input.a), str(input.b)),
                  fields_lt |-> SeqLess(Fields(input.a), Fields(input.b)),
                  hash_a |-> id_hash(input.a), hash_b |-> id_hash(input.b)]
    /\ UNCHANGED <<gen_vars, hist_vars, thread_vars, frame, ended, input>>

NextId == FromStr \/ Construct \/ FromFields \/ Compare

SpecId == InitId /\ [][NextId]_vars

\* the operation op was applied and returned
Did(op) == input.op = op /\ ~output.pending /\ output.raised = ""

\* the operation op was applied and raised
Raised(op) == input.op = op /\ ~output.pending /\ output.raised # ""

\* a string of the canonical length and alphabet, in either letter case
SyntacticallyValid(s) == Len(s) = STR_LEN /\ \A i \in 1..Len(s) : s[i] \in Alnum

\* a string with its lowercase letters replaced by the uppercase ones
Upper(s) ==
    [i \in 1..Len(s) |-> IF s[i] = "a" THEN "A" ELSE IF s[i] = "b" THEN "B" ELSE s[i]]

FieldsInRange ==
    /\ input.timestamp \in 0..MAX_TIMESTAMP
    /\ input.counter_hi \in 0..MAX_COUNTER_HI
    /\ input.counter_lo \in 0..MAX_COUNTER_LO
    /\ input.entropy \in 0..MAX_ENTROPY

\* C14: for every field tuple within the bounds, from_fields returns an
\* identifier whose accessors give that tuple and whose integer is the
\* packing of the four fields; and for every value x in range, from_fields
\* of the four accessors of Scru128Id(x) is Scru128Id(x).
C14_FieldsRoundTrip ==
    /\ (input.op = "from_fields" /\ ~output.pending /\ FieldsInRange) =>
           /\ output.raised = ""
           /\ output.fields = <<input.timestamp, input.counter_hi,
                                input.counter_lo, input.entropy>>
           /\ output.value =   input.timestamp * SHIFT_TIMESTAMP
                             + input.counter_hi * SHIFT_COUNTER_HI
                             + input.counter_lo * SHIFT_COUNTER_LO
                             + input.entropy
    /\ Did("Scru128Id") =>
           output.refields = [raised |-> "", value |-> input.int_value]

\* C14 witness: from_fields packed a tuple whose fields all differ from zero
\* and whose counter_hi and counter_lo differ from each other.
C14_Witness ==
    /\ Did("from_fields")
    /\ input.timestamp = MAX_TIMESTAMP /\ input.counter_hi = MAX_COUNTER_HI
    /\ input.counter_lo = 0 /\ input.entropy = MAX_ENTROPY
    /\ output.fields[2] = MAX_COUNTER_HI /\ output.fields[3] = 0

\* C15: from_str returns iff its input has exactly the canonical length, all
\* its characters are digits or letters, and its value is at most
\* MAX_INT_VALUE; for every other string it raises.
C15_StrictParse ==
    (input.op = "from_str" /\ ~output.pending) =>
        (output.raised = "" <=>
            /\ SyntacticallyValid(input.str_value)
            /\ DigitsValue(input.str_value, 0) <= MAX_INT_VALUE)

\* C16: the string of every identifier has the canonical length and holds
\* only digits and lowercase letters; the zero identifier gives all "0" and
\* the all-maximum field tuple gives the lowercase digits of MAX_INT_VALUE.
C16_LowercaseCanonical ==
    (~output.pending /\ output.raised = "" /\ input.op # "compare") =>
        /\ Len(output.text) = STR_LEN
        /\ \A i \in 1..Len(output.text) : output.text[i] \in {"0", "1", "a", "b"}
        /\ output.value = 0 => output.text = [i \in 1..STR_LEN |-> "0"]

\* C17: a < b iff the integers are so ordered, iff str(a) is smaller than
\* str(b) character by character, iff the field tuple of a is smaller than
\* that of b field by field; a == b iff the integers are equal, and then
\* the hashes are equal.
C17_OneTotalOrder ==
    Did("compare") =>
        /\ output.lt <=> input.a < input.b
        /\ output.lt <=> output.str_lt
        /\ output.lt <=> output.fields_lt
        /\ output.eq <=> input.a = input.b
        /\ output.eq => output.hash_a = output.hash_b

\* C17 witness: a is smaller than b by its timestamp although its entropy
\* is the greater, and its string holds a digit where b's holds a letter.
C17_Witness ==
    /\ Did("compare") /\ output.lt /\ output.str_lt /\ output.fields_lt
    /\ id_timestamp(input.a) < id_timestamp(input.b)
    /\ id_entropy(input.a) > id_entropy(input.b)
    /\ \E i \in 1..STR_LEN : str(input.a)[i] = "1" /\ str(input.b)[i] = "A"

\* the arguments of a from_fields call of which exactly one is out of bounds
OneOutOfRange ==
    Cardinality({i \in 1..4 :
        <<input.timestamp, input.counter_hi, input.counter_lo, input.entropy>>[i]
            \notin 0..<<MAX_TIMESTAMP, MAX_COUNTER_HI, MAX_COUNTER_LO, MAX_ENTROPY>>[i]}) = 1

\* C18: Scru128Id(v) raises for every v outside 0..MAX_INT_VALUE,
\* from_fields raises whenever an argument is negative or above its field's
\* maximum, and every identifier that was made has fields within the bounds.
C18_RejectsOutOfRange ==
    /\ (input.op = "Scru128Id" /\ ~output.pending
            /\ input.int_value \notin 0..MAX_INT_VALUE) => output.raised # ""
    /\ (input.op = "from_fields" /\ ~output.pending /\ ~FieldsInRange)
           => output.raised # ""
    /\ (~output.pending /\ output.raised = "" /\ input.op # "compare") =>
           /\ output.value \in 0..MAX_INT_VALUE
           /\ output.fields[1] \in 0..MAX_TIMESTAMP
           /\ output.fields[2] \in 0..MAX_COUNTER_HI
           /\ output.fields[3] \in 0..MAX_COUNTER_LO
           /\ output.fields[4] \in 0..MAX_ENTROPY

\* C18 witness: from_fields raised for a counter_lo one above its maximum,
\* the other arguments being within their bounds.
C18_Witness ==
    /\ Raised("from_fields") /\ OneOutOfRange
    /\ input.counter_lo = MAX_COUNTER_LO + 1

\* C19: between calls with valid arguments, last_timestamp is at most
\* MAX_TIMESTAMP, counter_hi at most MAX_COUNTER_HI, counter_lo at most
\* MAX_COUNTER_LO, and 0 <= ts_counter_hi <= last_timestamp.
C19_StateWithinBounds ==
    /\ timestamp \in 0..MAX_TIMESTAMP
    /\ counter_hi \in 0..MAX_COUNTER_HI
    /\ counter_lo \in 0..MAX_COUNTER_LO
    /\ 0 <= ts_counter_hi /\ ts_counter_hi <= timestamp

\* the call made by this step passed a timestamp not greater than the
\* generator's but within the allowance (line 280)
Cascades ==
    /\ call'.valid
    /\ call'.timestamp <= timestamp
    /\ ~call'.far_back

\* the call made by this step asked the RNG for the named field
Drew(field) == \E i \in 1..Len(call'.draws) : call'.draws[i].field = field

\* C20: a call whose timestamp is not greater than last_timestamp but within
\* the allowance adds one to counter_lo; when counter_lo was at its maximum
\* it becomes 0 and counter_hi gets one added; when counter_hi was at its
\* maximum too it becomes 0 (until the reseed of lines 298-300, if due),
\* last_timestamp gets exactly one added and counter_lo is drawn from the
\* RNG; in the first two cases last_timestamp is unchanged.
C20_CountersCascade ==
    [][ Cascades =>
          /\ counter_lo < MAX_COUNTER_LO =>
                /\ counter_lo' = counter_lo + 1
                /\ counter_hi' = counter_hi
                /\ timestamp' = timestamp
                /\ ~Drew("counter_lo")
          /\ (counter_lo = MAX_COUNTER_LO /\ counter_hi < MAX_COUNTER_HI) =>
                /\ counter_lo' = 0
                /\ counter_hi' = counter_hi + 1
                /\ timestamp' = timestamp
                /\ ~Drew("counter_lo")
          /\ (counter_lo = MAX_COUNTER_LO /\ counter_hi = MAX_COUNTER_HI) =>
                /\ Drew("counter_lo")
                /\ counter_lo' \in RngValues(MAX_COUNTER_LO)
                /\ ~Drew("counter_hi") => counter_hi' = 0
                /\ timestamp' = timestamp + 1
      ]_vars

\* C20 witness: both counters were at their maxima, so the call carried into
\* the timestamp, which is now ahead of the timestamp passed, left counter_hi
\* at 0 and drew the maximum for counter_lo.
C20_Witness ==
    /\ last_status = "TIMESTAMP_INC" /\ call.outcome = "id"
    /\ call.timestamp < timestamp
    /\ counter_hi = 0 /\ counter_lo = MAX_COUNTER_LO

\* the call made by this step ran the core to the end of its branches
\* (it neither returned None at line 296 nor took the reset path)
RanBranch == call'.valid /\ call'.outcome # "None" /\ call'.rerun = ""

\* C21: last_status names the branch the latest call took: NOT_EXECUTED
\* before any call; NEW_TIMESTAMP iff the timestamp passed exceeded
\* last_timestamp; COUNTER_LO_INC, COUNTER_HI_INC, TIMESTAMP_INC iff the
\* increment stayed in counter_lo, carried into counter_hi, or carried into
\* last_timestamp; CLOCK_ROLLBACK iff generate_or_reset_core took the reset
\* path; and it keeps its value when generate_or_abort_core returns None.
C21_StatusNamesBranch ==
    /\ [](call = NoCall => last_status = "NOT_EXECUTED")
    /\ [][ /\ RanBranch =>
                /\ last_status' = "NEW_TIMESTAMP" <=> call'.timestamp > timestamp
                /\ last_status' = "COUNTER_LO_INC" <=>
                       (call'.timestamp <= timestamp /\ counter_lo < MAX_COUNTER_LO)
                /\ last_status' = "COUNTER_HI_INC" <=>
                       (  call'.timestamp <= timestamp /\ counter_lo = MAX_COUNTER_LO
                        /\ counter_hi < MAX_COUNTER_HI)
                /\ last_status' = "TIMESTAMP_INC" <=>
                       (  call'.timestamp <= timestamp /\ counter_lo = MAX_COUNTER_LO
                        /\ counter_hi = MAX_COUNTER_HI)
           /\ (call'.valid /\ call'.outcome # "None") =>
                  (last_status' = "CLOCK_ROLLBACK" <=> call'.rerun # "")
           /\ call'.rerun # "" =>
                  call'.method = "generate_or_reset_core" /\ call'.far_back
           /\ call'.outcome = "None" => last_status' = last_status
         ]_vars

\* C21 witness: generate_or_abort_core returned None and left the
\* CLOCK_ROLLBACK of an earlier reset in place.
C21_Witness ==
    /\ call.method = "generate_or_abort_core" /\ call.outcome = "None"
    /\ last_status = "CLOCK_ROLLBACK"

\* the watermark as line 298 reads it in the call made by this step: the
\* reset path has set it to 0 (line 237)
WatermarkRead == IF call'.rerun # "" THEN 0 ELSE ts_counter_hi

\* the condition of line 298 as the call made by this step evaluated it
\* (the timestamp is not changed after line 291)
DueInCall == timestamp' - WatermarkRead >= RESEED_INTERVAL \/ WatermarkRead < 1

\* counter_hi as the cascade of lines 282-293 left it in the call made by
\* this step
CounterHiAfterCascade ==
    IF call'.rerun # "" THEN counter_hi
    ELSE IF last_status' = "COUNTER_HI_INC" THEN counter_hi + 1
    ELSE IF last_status' = "TIMESTAMP_INC" THEN 0
    ELSE counter_hi

\* C22: a call that returns an ID draws counter_hi from the RNG and sets the
\* watermark to last_timestamp exactly when last_timestamp - ts_counter_hi
\* >= RESEED_INTERVAL or the watermark is 0; otherwise the step leaves
\* counter_hi and the watermark alone.  After every call that returned an
\* ID, 1 <= ts_counter_hi and last_timestamp - ts_counter_hi < RESEED_INTERVAL.
C22_ReseedWhenDue ==
    /\ [][ call'.outcome = "id" =>
              /\ Drew("counter_hi") <=> DueInCall
              /\ DueInCall =>
                    /\ ts_counter_hi' = timestamp'
                    /\ counter_hi' \in RngValues(MAX_COUNTER_HI)
              /\ ~DueInCall =>
                    /\ ts_counter_hi' = WatermarkRead
                    /\ counter_hi' = CounterHiAfterCascade
         ]_vars
    /\ [](Returned => /\ 1 <= ts_counter_hi
                      /\ timestamp - ts_counter_hi < RESEED_INTERVAL)

\* C22 witness: a call that did not take the reset path reseeded counter_hi
\* to its maximum because RESEED_INTERVAL had passed since the watermark,
\* which the previous ID dates.
C22_Witness ==
    /\ Returned /\ ~TookResetPath
    /\ \E i \in 1..Len(call.draws) : call.draws[i].field = "counter_hi"
    /\ call.previous # NoId
    /\ timestamp - id_timestamp(call.previous) = RESEED_INTERVAL
    /\ ts_counter_hi = timestamp /\ counter_hi = MAX_COUNTER_HI

\* the getrandbits(32) calls among the calls the latest call made
EntropyDraws == {i \in 1..Len(call.draws) : call.draws[i] = Draw(32, "entropy")}

\* C23: a returned ID carries the generator's fields as the call leaves
\* them: its timestamp, counter_hi and counter_lo are last_timestamp,
\* counter_hi and counter_lo, and its entropy is a 32-bit value of the one
\* getrandbits(32) call made in that call, whichever branch ran.
C23_IdFromPostState ==
    Returned =>
        /\ id_timestamp(call.value) = timestamp
        /\ id_counter_hi(call.value) = counter_hi
        /\ id_counter_lo(call.value) = counter_lo
        /\ id_entropy(call.value) \in RngValues(MAX_ENTROPY)
        /\ Cardinality(EntropyDraws) = 1
        /\ \A i \in 1..Len(call.draws) : call.draws[i].field = "entropy" => i \in EntropyDraws

\* C23 witness: an ID returned by a call that carried into counter_hi holds
\* the incremented counter_hi, the counter_lo of 0 and the entropy drawn.
C23_Witness ==
    /\ Returned /\ last_status = "COUNTER_HI_INC"
    /\ counter_hi = MAX_COUNTER_HI /\ id_counter_hi(call.value) = MAX_COUNTER_HI
    /\ id_counter_lo(call.value) = 0 /\ id_entropy(call.value) = MAX_ENTROPY
    /\ call.previous # NoId /\ id_counter_hi(call.previous) = MAX_COUNTER_HI - 1

(***************************************************************************)
(* SpecFair: THREADS threads call generate() and generate_or_abort(); a    *)
(* caller waits at the with statement until the lock is free.  A thread    *)
(* that can take a step of its call eventually takes one, and a thread     *)
(* that finds the lock free again and again eventually gets it.            *)
(***************************************************************************)
\* generate() or generate_or_abort() is called (lines 191 and 204; __next__,
\* line 340, is a call of generate()): the caller arrives at the with statement
CallLocked(t, entry) ==
    /\ pc[t] = "idle"
    /\ pc' = [pc EXCEPT ![t] = "waiting"]
    /\ frame' = [frame EXCEPT ![t] = [NoFrame EXCEPT !.entry = entry]]
    /\ UNCHANGED <<gen_vars, hist_vars, lock, local_ts, clock, ended, input, output>>

\* lines 198 and 211: self._lock is acquired once it is free
TakeLock(t) ==
    /\ pc[t] = "waiting"
    /\ lock = Nobody
    /\ lock' = t
    /\ pc' = [pc EXCEPT ![t] = "locked"]
    /\ UNCHANGED <<gen_vars, hist_vars, local_ts, clock, aux_vars>>

\* lines 200-202 and 213-215: the core function of the entry point runs
\* under the lock, from its call to its return or its exception; it has no
\* loop and waits for nothing (C11: no other thread acts on the generator
\* meanwhile), so it is one step
RunLocked(t) ==
    /\ pc[t] = "timed"
    /\ \E rng \in RngFor(AtomicRun([frame[t] EXCEPT !.start = Gen], local_ts[t]).draws) :
       \E r \in {AtomicRun([frame[t] EXCEPT !.start = Gen, !.lo = rng.lo, !.hi = rng.hi],
                           local_ts[t])} :
           /\ SetGen(r.g)
           /\ ended' = [NoEnded EXCEPT !.thread = t, !.entry = frame[t].entry,
                                       !.outcome = r.outcome]
    /\ frame' = [frame EXCEPT ![t] = NoFrame]
    /\ pc' = [pc EXCEPT ![t] = "leaving"]
    /\ UNCHANGED <<hist_vars, lock, local_ts, clock, input, output>>

NextFair ==
    \/ \E t \in Threads :
           \/ CallLocked(t, "generate")
           \/ CallLocked(t, "generate_or_abort")
           \/ TakeLock(t)
           \/ ReadClock(t)
           \/ RunLocked(t)
           \/ Release(t)
    \/ Tick

\* a thread that holds the lock goes on with its call: weak fairness of
\* ReadClock(t), RunLocked(t) and Release(t) (RunLocked(t) is enabled exactly
\* when pc[t] = "timed", so its weak fairness is that pc[t] is not "timed"
\* for ever); a thread that finds the lock free again and again gets it:
\* strong fairness of TakeLock(t)
Fairness ==
    \A t \in Threads :
        /\ WF_vars(ReadClock(t))
        /\ []<>(pc[t] # "timed")
        /\ WF_vars(Release(t))
        /\ SF_vars(TakeLock(t))

SpecFair == Init /\ [][NextFair]_vars /\ Fairness

C25_ReseedOnlyOnNewTimestamp ==
    /\ [][ /\ (call'.valid /\ Drew("counter_hi") /\ call'.rerun = "") =>
                  /\ timestamp' > timestamp
                  /\ call'.previous # NoId => timestamp' > id_timestamp(call'.previous)
           /\ (call'.valid /\ last_status' \in {"COUNTER_LO_INC", "COUNTER_HI_INC"}
                 /\ call'.outcome # "None") =>
                  /\ timestamp' = timestamp
                  /\ ~Drew("counter_hi")
                  /\ counter_hi' >= counter_hi
         ]_vars
    /\ []((  Returned /\ ~TookResetPath /\ call.previous # NoId
           /\ id_timestamp(call.value) = id_timestamp(call.previous))
              => /\ id_lt(call.previous, call.value)
                 /\ \A i \in 1..Len(call.draws) : call.draws[i].field # "counter_hi")

\* C25 witness: the counters overflowed into last_timestamp, RESEED_INTERVAL
\* after the watermark, and the same call drew a new counter_hi.
C25_Witness ==
    /\ Returned /\ last_status = "TIMESTAMP_INC"
    /\ \E i \in 1..Len(call.draws) : call.draws[i].field = "counter_hi"
    /\ ts_counter_hi = timestamp /\ counter_hi = MAX_COUNTER_HI
    /\ call.previous # NoId /\ id_timestamp(call.previous) = timestamp - 1

\* C26: last_timestamp never decreases in a call of generate_or_abort_core;
\* it decreases only in a call of generate_or_reset_core that takes the
\* reset path; and a returned ID has a timestamp not smaller than the
\* timestamp passed to the call that made it, the same one when the call
\* adopted the timestamp (NEW_TIMESTAMP) or took the reset path.
C26_TimestampWatermark ==
    /\ [][ /\ call'.method = "generate_or_abort_core" => timestamp' >= timestamp
           /\ timestamp' < timestamp =>
                  /\ call'.method = "generate_or_reset_core"
                  /\ call'.rerun # "" /\ call'.far_back
                  /\ last_status' = "CLOCK_ROLLBACK"
         ]_vars
    /\ [](Returned =>
             /\ id_timestamp(call.value) >= call.timestamp
             /\ last_status \in {"NEW_TIMESTAMP", "CLOCK_ROLLBACK"}
                    => id_timestamp(call.value) = call.timestamp)

\* C26 witness: the reset path took last_timestamp back by more than one,
\* to the timestamp passed, which the returned ID carries.
C26_Witness ==
    /\ Returned /\ TookResetPath /\ call.method = "generate_or_reset_core"
    /\ timestamp = call.timestamp /\ id_timestamp(call.value) = call.timestamp
    /\ call.previous # NoId /\ id_timestamp(call.previous) >= timestamp + 2

====
